---------------------------- MODULE Spec2Model ----------------------------
(***************************************************************************)
(* A model of the BusTub storage core: the LRU-K replacer                  *)
(* (src/buffer/lru_k_replacer.cpp), the buffer pool manager                *)
(* (src/buffer/buffer_pool_manager.cpp) that drives it, and the persistent *)
(* trie (src/primer/trie.cpp).                                             *)
(*                                                                         *)
(* Every public method takes the object's latch on entry and holds it to   *)
(* its return, so each call is one atomic action and an interleaving of    *)
(* threads is a sequence of such actions, in the order the latch is taken. *)
(* A call that ends in an ExecutionException is an action too: the state   *)
(* it changed before the throw stays changed, and the caller may go on.    *)
(* Disk reads and writes always complete successfully, and callers change  *)
(* no page's data: a frame holds what was last read into it, or zeroes.    *)
(***************************************************************************)
EXTENDS Integers, Sequences, FiniteSets

(***************************************************************************)
(* Bounds of the model.                                                    *)
(***************************************************************************)
\* largest num_frames of a stand-alone replacer
MaxFrames == 3
\* largest pool_size of a buffer pool
MaxPool == 2
\* largest k of a replacer
MaxK == 3
\* largest replacer_k of a buffer pool
MaxPoolK == 2
\* a stand-alone replacer's RecordAccess is not called once current_timestamp_ has reached this
MaxTimestamp == 5
\* NewPage and FetchPage are not called once the pool's replacer has recorded this many accesses
MaxInstalls == 3
\* page ids are 0 .. MaxPageId - 1; NewPage is not called once next_page_id_ has reached this
MaxPageId == 3
\* longest key passed to a trie
MaxKeyLen == 2
\* Put and Remove are not called once this many trie snapshots exist, the empty one included
MaxSnapshots == 3

(***************************************************************************)
(* The sentinels of the replacer's list carry these frame ids.             *)
(***************************************************************************)
HistoryEnd == -1
MiddleSeparator == -2
BufferStart == -3

VARIABLES
    \* LRUKReplacer
    node_store,         \* frame_id -> [history, is_evictable], the tracked nodes
    chain,              \* the linked list, history_end_ptr_ first, following frontptr_
    curr_size,          \* curr_size_
    current_timestamp,  \* current_timestamp_
    replacer_size,      \* replacer_size_
    k,                  \* k_
    \* BufferPoolManager
    pool_size,          \* pool_size_
    pages,              \* pages_: frame_id -> [page_id, pin_count, is_dirty, data]
    page_table,         \* page_table_: page_id -> frame_id
    free_list,          \* free_list_
    next_page_id,       \* next_page_id_
    disk,               \* the disk manager's store: page_id -> data
    crashed,            \* the process was ended by undefined behaviour
    \* observation
    last,               \* the last call: its name, arguments and outcome
    allocated,          \* the page ids NewPage has returned, in latch order
    \* Trie
    snapshots           \* the Trie handles made so far, the empty trie first

replacerVars == <<node_store, chain, curr_size, current_timestamp, replacer_size, k>>
bpmVars == <<pool_size, pages, page_table, free_list, next_page_id, disk, crashed>>
vars == <<replacerVars, bpmVars, last, allocated, snapshots>>

(***************************************************************************)
(* Sequence helpers.                                                       *)
(***************************************************************************)
IndexOf(s, x) == CHOOSE i \in 1..Len(s) : s[i] = x

InSeq(s, x) == \E i \in 1..Len(s) : s[i] = x

Without(s, x) == SelectSeq(s, LAMBDA y : y # x)

MapPut(m, key, v) == [x \in DOMAIN m \cup {key} |-> IF x = key THEN v ELSE m[x]]

MapErase(m, key) == [x \in DOMAIN m \ {key} |-> m[x]]

\* std::unordered_map::emplace: no effect when the key is present
MapEmplace(m, key, v) == IF key \in DOMAIN m THEN m ELSE MapPut(m, key, v)

(***************************************************************************)
(* LRUKNode (declared in lru_k_replacer.h).                                *)
(***************************************************************************)
NewNode == [history |-> <<>>, is_evictable |-> FALSE]

\* LRUKNode::RecordAccess: append the timestamp, keep the kk most recent;
\* answers whether an older timestamp had to be dropped
NodeRecordAccess(node, ts, kk) ==
    LET h == Append(node.history, ts)
        full == Len(h) > kk
    IN [node |-> [node EXCEPT !.history = IF full THEN Tail(h) ELSE h],
        ret  |-> full]

NodeCleanHistory(node) == [node EXCEPT !.history = <<>>]

(***************************************************************************)
(* LRUKReplacer.  r is the replacer's mutable state.                       *)
(***************************************************************************)
Rep == [node_store |-> node_store, chain |-> chain, curr_size |-> curr_size,
        current_timestamp |-> current_timestamp]

InitRep(n, kk) ==
    [node_store |-> [f \in 0..(n-1) |-> NewNode],
     chain |-> <<HistoryEnd, MiddleSeparator, BufferStart>>,
     curr_size |-> 0,
     current_timestamp |-> 0]

DisLink(c, n) == Without(c, n)

MoveToEnd(c, n, end) ==
    LET d == DisLink(c, n)
        i == IndexOf(d, end)
    IN SubSeq(d, 1, i) \o <<n>> \o SubSeq(d, i + 1, Len(d))

IsHistoryEmpty(c) == c[IndexOf(c, HistoryEnd) + 1] = MiddleSeparator

IsBufferEmpty(c) == c[IndexOf(c, MiddleSeparator) + 1] = BufferStart

\* the nodes strictly between two sentinels, in the order Evict visits them:
\* from the one next to `to` back to the one next to `from`
ScanOrder(c, from, to) ==
    LET lo == IndexOf(c, from)
        hi == IndexOf(c, to)
    IN [i \in 1..(hi - lo - 1) |-> c[hi - i]]

\* FirstEvictable without the GetEvictable() test
MutFirstEvictable(ns, order) ==
    IF order = <<>> THEN <<>> ELSE <<order[1]>>

\* the first node of `order` that GetEvictable(), as <<frame>>, or <<>>
FirstEvictable(ns, order) ==
    LET hits == SelectSeq(order, LAMBDA n : ns[n].is_evictable)
    IN IF hits = <<>> THEN <<>> ELSE <<hits[1]>>

\* the body of either loop of Evict once it has found node n
EvictNode(r, n) ==
    [r EXCEPT !.chain = DisLink(r.chain, n),
              !.node_store[n] = NodeCleanHistory([r.node_store[n] EXCEPT !.is_evictable = FALSE]),
              !.curr_size = r.curr_size - 1]

Evict(r) ==
    LET hist == IF IsHistoryEmpty(r.chain) THEN <<>>
                ELSE FirstEvictable(r.node_store, ScanOrder(r.chain, HistoryEnd, MiddleSeparator))
        buf  == IF IsBufferEmpty(r.chain) THEN <<>>
                ELSE FirstEvictable(r.node_store, ScanOrder(r.chain, MiddleSeparator, BufferStart))
    IN IF r.curr_size = 0 THEN [r |-> r, ok |-> FALSE, out |-> <<>>]
       ELSE IF hist # <<>> THEN [r |-> EvictNode(r, hist[1]), ok |-> TRUE, out |-> hist]
       ELSE IF buf # <<>> THEN [r |-> EvictNode(r, buf[1]), ok |-> TRUE, out |-> buf]
       ELSE [r |-> r, ok |-> FALSE, out |-> <<>>]

RecordAccess(r, f) ==
    LET ts == r.current_timestamp + 1
        r1 == [r EXCEPT !.current_timestamp = ts]
    IN IF f < 0 \/ f >= replacer_size
       THEN [r |-> r1, thrown |-> TRUE]
       ELSE IF f \notin DOMAIN r.node_store
       THEN LET a == NodeRecordAccess(NewNode, ts, k)
            IN [r |-> [r1 EXCEPT !.node_store = MapPut(r.node_store, f, a.node),
                                 !.chain = MoveToEnd(r.chain, f, HistoryEnd)],
                thrown |-> FALSE]
       ELSE LET a == NodeRecordAccess(r.node_store[f], ts, k)
                end == IF a.ret THEN MiddleSeparator
                       ELSE IF Len(a.node.history) < k THEN HistoryEnd
                       ELSE MiddleSeparator
            IN [r |-> [r1 EXCEPT !.node_store[f] = a.node,
                                 !.chain = MoveToEnd(r.chain, f, end)],
                thrown |-> FALSE]

\* SetEvictable without the test that the flag changes
MutSetEvictable(r, f, set_evictable) ==
    IF f \in DOMAIN r.node_store
    THEN [r EXCEPT !.node_store[f].is_evictable = set_evictable,
                   !.curr_size = r.curr_size + (IF set_evictable THEN 1 ELSE -1)]
    ELSE r

SetEvictable(r, f, set_evictable) ==
    IF f \in DOMAIN r.node_store /\ r.node_store[f].is_evictable # set_evictable
    THEN [r EXCEPT !.node_store[f].is_evictable = set_evictable,
                   !.curr_size = r.curr_size + (IF set_evictable THEN 1 ELSE -1)]
    ELSE r

Remove(r, f) ==
    IF f \notin DOMAIN r.node_store THEN [r |-> r, thrown |-> FALSE]
    ELSE IF ~r.node_store[f].is_evictable THEN [r |-> r, thrown |-> TRUE]
    ELSE [r |-> [r EXCEPT !.chain = DisLink(r.chain, f),
                          !.node_store = MapErase(r.node_store, f),
                          !.curr_size = r.curr_size - 1],
          thrown |-> FALSE]

Size(r) == r.curr_size

(***************************************************************************)
(* The record of the last call.                                            *)
(***************************************************************************)
Call(op, arg, flag, ret, out, pid, io) ==
    [op |-> op, arg |-> arg, flag |-> flag, ret |-> ret, out |-> out, pid |-> pid, io |-> io]

NoCall == Call("none", 0, FALSE, "void", <<>>, <<>>, <<>>)

SetRep(r) ==
    /\ node_store' = r.node_store
    /\ chain' = r.chain
    /\ curr_size' = r.curr_size
    /\ current_timestamp' = r.current_timestamp
    /\ UNCHANGED <<replacer_size, k>>

(***************************************************************************)
(* A replacer on its own, called by any client.                            *)
(***************************************************************************)
\* frame ids a client passes: the valid ones and one past the end
FrameArgs == 0..replacer_size

ReplacerRecordAccess(f) ==
    /\ current_timestamp < MaxTimestamp
    /\ LET res == RecordAccess(Rep, f)
       IN /\ SetRep(res.r)
          /\ last' = Call("RecordAccess", f, FALSE, IF res.thrown THEN "throw" ELSE "void",
                          <<>>, <<>>, <<>>)
    /\ UNCHANGED <<bpmVars, allocated, snapshots>>

ReplacerSetEvictable(f, b) ==
    /\ SetRep(SetEvictable(Rep, f, b))
    /\ last' = Call("SetEvictable", f, b, "void", <<>>, <<>>, <<>>)
    /\ UNCHANGED <<bpmVars, allocated, snapshots>>

ReplacerEvict ==
    /\ LET res == Evict(Rep)
       IN /\ SetRep(res.r)
          /\ last' = Call("Evict", 0, FALSE, IF res.ok THEN "true" ELSE "false",
                          res.out, <<>>, <<>>)
    /\ UNCHANGED <<bpmVars, allocated, snapshots>>

ReplacerRemove(f) ==
    /\ LET res == Remove(Rep, f)
       IN /\ SetRep(res.r)
          /\ last' = Call("Remove", f, FALSE, IF res.thrown THEN "throw" ELSE "void",
                          <<>>, <<>>, <<>>)
    /\ UNCHANGED <<bpmVars, allocated, snapshots>>

NoPool ==
    /\ pool_size = 0
    /\ pages = <<>>
    /\ page_table = <<>>
    /\ free_list = <<>>
    /\ next_page_id = 0
    /\ disk = <<>>
    /\ crashed = FALSE
    /\ allocated = <<>>

InitReplacer ==
    /\ replacer_size \in 1..MaxFrames
    /\ k \in 1..MaxK
    /\ node_store = InitRep(replacer_size, k).node_store
    /\ chain = InitRep(replacer_size, k).chain
    /\ curr_size = InitRep(replacer_size, k).curr_size
    /\ current_timestamp = InitRep(replacer_size, k).current_timestamp
    /\ last = NoCall
    /\ NoPool
    /\ snapshots = <<>>

NextReplacer ==
    \/ \E f \in FrameArgs : ReplacerRecordAccess(f)
    \/ \E f \in FrameArgs, b \in BOOLEAN : ReplacerSetEvictable(f, b)
    \/ ReplacerEvict
    \/ \E f \in FrameArgs : ReplacerRemove(f)

SpecReplacer == InitReplacer /\ [][NextReplacer]_vars


(***************************************************************************)
(* Page (declared in storage/page/page.h) and the disk.                    *)
(***************************************************************************)
\* Page(): no page, not pinned, clean, zeroed
NewFrame == [page_id |-> -1, pin_count |-> 0, is_dirty |-> FALSE, data |-> 0]

\* Page::ResetMemory zeroes the data and leaves the page's other fields alone
ResetMemory(pg) == [pg EXCEPT !.data = 0]

PageIds == 0..(MaxPageId - 1)

\* what the disk holds before the pool is built: page p holds p + 1, so that
\* no two pages, and no page and a zeroed frame, hold the same data
InitialDisk == [p \in PageIds |-> p + 1]

Event(kind, pid, data) == [kind |-> kind, pid |-> pid, data |-> data]

(***************************************************************************)
(* BufferPoolManager.  s is the pool's mutable state, with its replacer    *)
(* as s.rep; ub chooses what undefined behaviour does if a call meets it:  *)
(* the process dies (ub.crash), or goes on with ub.frame as the value of   *)
(* an indeterminate frame id and with an erase of end() as a no-op.        *)
(***************************************************************************)
Bpm == [pages |-> pages, page_table |-> page_table, free_list |-> free_list,
        next_page_id |-> next_page_id, disk |-> disk, rep |-> Rep, crashed |-> crashed]

UBChoices == [crash : BOOLEAN, frame : 0..(pool_size - 1)]

Result(s, ret, out, pid, io) == [s |-> s, ret |-> ret, out |-> out, pid |-> pid, io |-> io]

\* disk_scheduler_->Schedule of a write of frame f under page id p, and the wait for it
DiskWrite(s, f, p) == [s EXCEPT !.disk = MapPut(s.disk, p, s.pages[f].data)]

\* disk_scheduler_->Schedule of a read of page p into frame f, and the wait for it
DiskRead(s, f, p) == [s EXCEPT !.pages[f].data = s.disk[p]]

\* replacer_->RecordAccess(f); replacer_->SetEvictable(f, false); page_id_ = p; page_table_.emplace(p, f)
Install(s, f, p) ==
    [s EXCEPT !.rep = SetEvictable(RecordAccess(s.rep, f).r, f, FALSE),
              !.pages[f].page_id = p,
              !.page_table = MapEmplace(s.page_table, p, f)]

\* NewPageWriteBack with the reset ahead of the write
MutNewPageWriteBack(s, f) ==
    LET old == s.pages[f].page_id
        s1 == [s EXCEPT !.pages[f] = ResetMemory(s.pages[f])]
        s2 == DiskWrite(s1, f, old)
    IN [s |-> s2,
        io |-> <<Event("reset", old, 0), Event("write", old, s1.pages[f].data)>>]

\* NewPage's write-back of a dirty victim: write, then reset
NewPageWriteBack(s, f) ==
    LET old == s.pages[f].page_id
        s1 == DiskWrite(s, f, old)
        s2 == [s1 EXCEPT !.pages[f] = ResetMemory(s1.pages[f])]
    IN [s |-> s2,
        io |-> <<Event("write", old, s.pages[f].data), Event("reset", old, 0)>>]

NewPageFromFreeList(s) ==
    LET f == s.free_list[Len(s.free_list)]
        p == s.next_page_id
        s1 == [s EXCEPT !.free_list = SubSeq(s.free_list, 1, Len(s.free_list) - 1),
                        !.next_page_id = p + 1]
    IN Result(Install(s1, f, p), "page", <<f>>, <<p>>, <<>>)

NewPageFromReplacer(s, ub) ==
    LET ev == Evict(s.rep)
        s1 == [s EXCEPT !.rep = ev.r]
    IN IF ~ev.ok /\ ub.crash
       THEN Result([s1 EXCEPT !.crashed = TRUE], "ub", <<>>, <<>>, <<>>)
       ELSE LET f == IF ev.ok THEN ev.out[1] ELSE ub.frame
                dirty == s1.pages[f].is_dirty
                old == s1.pages[f].page_id
                wb == IF dirty THEN NewPageWriteBack(s1, f) ELSE [s |-> s1, io |-> <<>>]
            IN IF dirty /\ old \notin DOMAIN s1.page_table /\ ub.crash
               THEN Result([wb.s EXCEPT !.crashed = TRUE], "ub", <<f>>, <<>>, wb.io)
               ELSE LET s2 == IF dirty
                              THEN [wb.s EXCEPT !.page_table = MapErase(wb.s.page_table, old)]
                              ELSE wb.s
                        p == s2.next_page_id
                        s3 == [s2 EXCEPT !.next_page_id = p + 1]
                    IN Result(Install(s3, f, p), "page", <<f>>, <<p>>, wb.io)

NewPage(s, ub) ==
    IF s.free_list # <<>> THEN NewPageFromFreeList(s)
    ELSE IF Size(s.rep) > 0 THEN NewPageFromReplacer(s, ub)
    ELSE Result(s, "null", <<>>, <<>>, <<>>)

FetchPageFromFreeList(s, p) ==
    LET f == s.free_list[Len(s.free_list)]
        s1 == [s EXCEPT !.free_list = SubSeq(s.free_list, 1, Len(s.free_list) - 1)]
        s2 == DiskRead(s1, f, p)
    IN Result(Install(s2, f, p), "page", <<f>>, <<p>>, <<Event("read", p, s2.pages[f].data)>>)

\* FetchPage's write-back of a dirty victim: write, then reset
FetchPageWriteBack(s, f) ==
    LET old == s.pages[f].page_id
        s1 == DiskWrite(s, f, old)
        s2 == [s1 EXCEPT !.pages[f] = ResetMemory(s1.pages[f])]
    IN [s |-> s2,
        io |-> <<Event("write", old, s.pages[f].data), Event("reset", old, 0)>>]

FetchPageFromReplacer(s, p, ub) ==
    LET ev == Evict(s.rep)
        s1 == [s EXCEPT !.rep = ev.r]
    IN IF ~ev.ok /\ ub.crash
       THEN Result([s1 EXCEPT !.crashed = TRUE], "ub", <<>>, <<>>, <<>>)
       ELSE LET f == IF ev.ok THEN ev.out[1] ELSE ub.frame
                old == s1.pages[f].page_id
            IN IF old \notin DOMAIN s1.page_table /\ ub.crash
               THEN Result([s1 EXCEPT !.crashed = TRUE], "ub", <<f>>, <<>>, <<>>)
               ELSE LET s2 == [s1 EXCEPT !.page_table = MapErase(s1.page_table, old)]
                        wb == IF s2.pages[f].is_dirty THEN FetchPageWriteBack(s2, f)
                              ELSE [s |-> s2, io |-> <<>>]
                        s3 == DiskRead(wb.s, f, p)
                    IN Result(Install(s3, f, p), "page", <<f>>, <<p>>,
                              wb.io \o <<Event("read", p, s3.pages[f].data)>>)

FetchPage(s, p, ub) ==
    IF p \in DOMAIN s.page_table THEN Result(s, "page", <<s.page_table[p]>>, <<p>>, <<>>)
    ELSE IF s.free_list # <<>> THEN FetchPageFromFreeList(s, p)
    ELSE IF Size(s.rep) > 0 THEN FetchPageFromReplacer(s, p, ub)
    ELSE Result(s, "null", <<>>, <<>>, <<>>)

UnpinPage(s, p, is_dirty) ==
    IF p \notin DOMAIN s.page_table THEN Result(s, "false", <<>>, <<>>, <<>>)
    ELSE LET f == s.page_table[p]
             s1 == IF is_dirty /\ ~s.pages[f].is_dirty
                   THEN [s EXCEPT !.pages[f].is_dirty = TRUE] ELSE s
             s2 == IF s1.pages[f].pin_count > 0
                   THEN [s1 EXCEPT !.pages[f].pin_count = s1.pages[f].pin_count - 1] ELSE s1
             s3 == IF s2.pages[f].pin_count = 0
                   THEN [s2 EXCEPT !.rep = SetEvictable(s2.rep, f, TRUE)] ELSE s2
         IN Result(s3, "true", <<f>>, <<>>, <<>>)

\* the write and the clearing of the dirty flag that FlushPage and FlushAllPages share
FlushFrame(s, f, p) == [DiskWrite(s, f, p) EXCEPT !.pages[f].is_dirty = FALSE]

\* FlushPage that skips a clean page
MutFlushPage(s, p) ==
    IF p \notin DOMAIN s.page_table THEN Result(s, "false", <<>>, <<>>, <<>>)
    ELSE LET f == s.page_table[p]
         IN IF s.pages[f].is_dirty
            THEN Result(FlushFrame(s, f, p), "true", <<f>>, <<>>,
                        <<Event("write", p, s.pages[f].data)>>)
            ELSE Result(s, "true", <<f>>, <<>>, <<>>)

FlushPage(s, p) ==
    IF p \notin DOMAIN s.page_table THEN Result(s, "false", <<>>, <<>>, <<>>)
    ELSE LET f == s.page_table[p]
         IN Result(FlushFrame(s, f, p), "true", <<f>>, <<>>,
                   <<Event("write", p, s.pages[f].data)>>)

\* FlushAllPages over the entries `todo` of page_table_
RECURSIVE FlushEach(_, _)
FlushEach(s, todo) ==
    IF todo = {} THEN [s |-> s, io |-> <<>>]
    ELSE LET p == CHOOSE x \in todo : \A y \in todo : x <= y
             f == s.page_table[p]
             rest == FlushEach(FlushFrame(s, f, p), todo \ {p})
         IN [s |-> rest.s, io |-> <<Event("write", p, s.pages[f].data)>> \o rest.io]

FlushAllPages(s) ==
    LET res == FlushEach(s, DOMAIN s.page_table)
    IN Result(res.s, "void", <<>>, <<>>, res.io)

DeletePage(s, p) ==
    IF p \notin DOMAIN s.page_table THEN Result(s, "false", <<>>, <<>>, <<>>)
    ELSE LET f == s.page_table[p]
         IN IF s.pages[f].pin_count > 0 THEN Result(s, "false", <<f>>, <<>>, <<>>)
            ELSE LET s1 == [s EXCEPT !.page_table = MapErase(s.page_table, p)]
                     rm == Remove(s1.rep, f)
                 IN IF rm.thrown THEN Result(s1, "throw", <<f>>, <<>>, <<>>)
                    ELSE Result([s1 EXCEPT !.rep = rm.r,
                                           !.free_list = Append(s1.free_list, f),
                                           !.pages[f] = ResetMemory(s1.pages[f])],
                                "true", <<f>>, <<>>, <<Event("reset", p, 0)>>)

(***************************************************************************)
(* The buffer pool's actions.                                              *)
(***************************************************************************)
SetBpm(s) ==
    /\ pages' = s.pages
    /\ page_table' = s.page_table
    /\ free_list' = s.free_list
    /\ next_page_id' = s.next_page_id
    /\ disk' = s.disk
    /\ crashed' = s.crashed
    /\ SetRep(s.rep)
    /\ UNCHANGED pool_size

Done(op, arg, flag, res) ==
    /\ SetBpm(res.s)
    /\ UNCHANGED snapshots
    /\ last' = Call(op, arg, flag, res.ret, res.out, res.pid, res.io)

BpmNewPage ==
    /\ ~crashed
    /\ next_page_id < MaxPageId
    /\ current_timestamp < MaxInstalls
    /\ \E ub \in UBChoices :
         LET res == NewPage(Bpm, ub)
         IN /\ Done("NewPage", 0, FALSE, res)
            /\ allocated' = IF res.ret = "page" THEN allocated \o res.pid ELSE allocated

BpmFetchPage(p) ==
    /\ ~crashed
    /\ current_timestamp < MaxInstalls
    /\ \E ub \in UBChoices : Done("FetchPage", p, FALSE, FetchPage(Bpm, p, ub))
    /\ UNCHANGED allocated

BpmUnpinPage(p, is_dirty) ==
    /\ ~crashed
    /\ Done("UnpinPage", p, is_dirty, UnpinPage(Bpm, p, is_dirty))
    /\ UNCHANGED allocated

BpmFlushPage(p) ==
    /\ ~crashed
    /\ Done("FlushPage", p, FALSE, FlushPage(Bpm, p))
    /\ UNCHANGED allocated

BpmFlushAllPages ==
    /\ ~crashed
    /\ Done("FlushAllPages", 0, FALSE, FlushAllPages(Bpm))
    /\ UNCHANGED allocated

BpmDeletePage(p) ==
    /\ ~crashed
    /\ Done("DeletePage", p, FALSE, DeletePage(Bpm, p))
    /\ UNCHANGED allocated

Init ==
    /\ pool_size \in 1..MaxPool
    /\ k \in 1..MaxPoolK
    /\ replacer_size = pool_size
    /\ node_store = InitRep(pool_size, k).node_store
    /\ chain = InitRep(pool_size, k).chain
    /\ curr_size = InitRep(pool_size, k).curr_size
    /\ current_timestamp = InitRep(pool_size, k).current_timestamp
    /\ pages = [f \in 0..(pool_size - 1) |-> NewFrame]
    /\ page_table = <<>>
    /\ free_list = [i \in 1..pool_size |-> i - 1]
    /\ next_page_id = 0
    /\ disk = InitialDisk
    /\ crashed = FALSE
    /\ last = NoCall
    /\ allocated = <<>>
    /\ snapshots = <<>>

Next ==
    \/ BpmNewPage
    \/ \E p \in PageIds : BpmFetchPage(p)
    \/ \E p \in PageIds, d \in BOOLEAN : BpmUnpinPage(p, d)
    \/ \E p \in PageIds : BpmFlushPage(p)
    \/ BpmFlushAllPages
    \/ \E p \in PageIds : BpmDeletePage(p)

Spec == Init /\ [][Next]_vars


(***************************************************************************)
(* TrieNode, TrieNodeWithValue<T> and Trie (declared in primer/trie.h).    *)
(* A node is the record of its children_, its is_value_node_ and, for a    *)
(* TrieNodeWithValue, its value_ with the value's type T.  Every node that *)
(* a snapshot can reach is held through a pointer to const, so a call      *)
(* writes only to the nodes it has made itself; a node is therefore        *)
(* modelled by its contents.                                               *)
(***************************************************************************)
\* the bytes of a key
Alphabet == {"a", "b"}

\* the label of the child of the root that holds the value of the empty key
Nul == "\\0"

\* the keys that Get, Put and Remove are called with
Keys == UNION {[1..n -> Alphabet] : n \in 0..MaxKeyLen}

\* the keys a snapshot is compared on: those and the ones a byte longer
ProbeKeys == UNION {[1..n -> Alphabet] : n \in 0..(MaxKeyLen + 1)}

\* the types Get and Put are instantiated for
Types == {"uint32_t", "uint64_t"}

Values == {[type |-> "uint32_t", v |-> 1], [type |-> "uint32_t", v |-> 2],
           [type |-> "uint64_t", v |-> 1]}

NoChildren == <<>>

TrieNode(children) == [children |-> children, is_value_node |-> FALSE, value |-> <<>>]

TrieNodeWithValue(children, value) ==
    [children |-> children, is_value_node |-> TRUE, value |-> <<value>>]

\* TrieNode::Clone and TrieNodeWithValue::Clone: a new node of the same class
\* with the same children_ and the same value_.  Put and Remove pass the
\* clone of a value node through std::static_pointer_cast and store it as a
\* pointer to TrieNode again, which leaves the node as Clone made it
Clone(node) == [children |-> node.children, is_value_node |-> node.is_value_node,
                value |-> node.value]

\* Trie(): no root
EmptyTrie == [root |-> <<>>]

Trie(root) == [root |-> <<root>>]

(***************************************************************************)
(* Trie::Get, Trie::Put and Trie::Remove.                                  *)
(***************************************************************************)
GetResult(ret, out) == [ret |-> ret, out |-> out]

\* the walk `for (char ch : key)` from node cur at position i of the key:
\* <<the node reached>>, or <<>> when a label has no child
RECURSIVE Walk(_, _, _)
Walk(cur, key, i) ==
    IF i > Len(key) THEN <<cur>>
    ELSE IF key[i] \in DOMAIN cur.children THEN Walk(cur.children[key[i]], key, i + 1)
    ELSE <<>>

\* std::dynamic_pointer_cast<const TrieNodeWithValue<T>>: <<value>>, or <<>> for null
DynamicCast(node, T) ==
    IF node.value # <<>> /\ node.value[1].type = T THEN node.value ELSE <<>>

\* "throw" is the std::out_of_range of children_.at('\0')
Get(t, key, T) ==
    IF t.root = <<>> THEN GetResult("null", <<>>)
    ELSE LET found == Walk(t.root[1], key, 1)
         IN IF found = <<>> THEN GetResult("null", <<>>)
            ELSE IF key = <<>> /\ Nul \notin DOMAIN found[1].children
            THEN GetResult("throw", <<>>)
            ELSE LET cur == IF key = <<>> THEN found[1].children[Nul] ELSE found[1]
                     node == DynamicCast(cur, T)
                 IN IF node # <<>> THEN GetResult("value", node)
                    ELSE GetResult("null", <<>>)

\* the loop of Put from position i of the key: new_cur, the node made for
\* position i - 1, with the rest of the path hung below it; cur is <<>> for a
\* null pointer and is advanced only where the old trie has the label
RECURSIVE PutWalk(_, _, _, _, _)
PutWalk(new_cur, cur, key, i, value) ==
    LET ch == key[i]
        has == cur # <<>> /\ ch \in DOMAIN cur[1].children
    IN IF i = Len(key)
       THEN IF has
            THEN [new_cur EXCEPT !.children =
                     MapPut(@, ch, TrieNodeWithValue(cur[1].children[ch].children, value))]
            ELSE [new_cur EXCEPT !.children =
                     MapPut(@, ch, TrieNodeWithValue(NoChildren, value))]
       ELSE IF has
            THEN [new_cur EXCEPT !.children =
                     MapPut(@, ch, PutWalk(Clone(cur[1].children[ch]),
                                           <<cur[1].children[ch]>>, key, i + 1, value))]
            ELSE [new_cur EXCEPT !.children =
                     MapPut(@, ch, PutWalk(TrieNode(NoChildren), cur, key, i + 1, value))]

Put(t, key, value) ==
    LET root == t.root
        new_root == IF root # <<>> THEN Clone(root[1]) ELSE TrieNode(NoChildren)
    IN IF key = <<>>
       THEN Trie([new_root EXCEPT !.children =
                     MapPut(@, Nul, TrieNodeWithValue(NoChildren, value))])
       ELSE Trie(PutWalk(new_root, root, key, 1, value))

\* the second and third loops of Remove from position i of the key: new_cur
\* with the path below it cloned, the terminal erased or turned into a plain
\* TrieNode, and every node left without children and value erased
RECURSIVE RemoveWalk(_, _, _, _)
RemoveWalk(new_cur, cur, key, i) ==
    LET ch == key[i]
        next_cur == Clone(cur.children[ch])
        node == IF i = Len(key) THEN next_cur
                ELSE RemoveWalk(next_cur, cur.children[ch], key, i + 1)
    IN IF i = Len(key) /\ node.is_value_node
       THEN IF DOMAIN node.children = {}
            THEN [new_cur EXCEPT !.children = MapErase(@, ch)]
            ELSE [new_cur EXCEPT !.children = MapPut(@, ch, TrieNode(node.children))]
       ELSE IF DOMAIN node.children = {} /\ ~node.is_value_node
            THEN [new_cur EXCEPT !.children = MapErase(@, ch)]
            ELSE [new_cur EXCEPT !.children = MapPut(@, ch, node)]

\* what dereferencing the null root does in Remove: the process dies
\* (ub.crash), or the read goes on and gives no child for a label and
\* ub.flag for is_value_node_
TrieUBChoices == [crash : BOOLEAN, flag : BOOLEAN]

RemoveResult(t, ret) == [t |-> t, ret |-> ret]

Trie_Remove(t, key, ub) ==
    LET root == t.root
        new_root == IF root # <<>> THEN Clone(root[1]) ELSE TrieNode(NoChildren)
        new_root1 == IF key = <<>> THEN [new_root EXCEPT !.children = MapErase(@, Nul)]
                     ELSE new_root
        found == IF root # <<>> THEN Walk(root[1], key, 1) ELSE <<>>
        is_value == IF root # <<>> THEN found # <<>> /\ found[1].is_value_node
                    ELSE key = <<>> /\ ub.flag
    IN IF root = <<>> /\ ub.crash THEN RemoveResult(t, "ub")
       ELSE IF ~is_value THEN RemoveResult(Trie(new_root1), "trie")
       ELSE LET pruned == IF key = <<>> THEN new_root1
                          ELSE RemoveWalk(new_root1, root[1], key, 1)
            IN IF DOMAIN pruned.children = {} THEN RemoveResult(EmptyTrie, "trie")
               ELSE RemoveResult(Trie(pruned), "trie")

(***************************************************************************)
(* Tries on their own: any snapshot made so far may be read and may be     *)
(* the receiver of a Put or a Remove, which adds the snapshot it returns.  *)
(***************************************************************************)
TrieDone ==
    UNCHANGED <<replacerVars, pool_size, pages, page_table, free_list, next_page_id, disk,
                allocated>>

TriePut(i, key, value) ==
    /\ ~crashed
    /\ Len(snapshots) < MaxSnapshots
    /\ snapshots' = Append(snapshots, Put(snapshots[i], key, value))
    /\ last' = Call("Put", key, FALSE, "trie", <<value>>, <<i>>, <<>>)
    /\ UNCHANGED crashed
    /\ TrieDone

TrieRemove(i, key) ==
    /\ ~crashed
    /\ Len(snapshots) < MaxSnapshots
    /\ \E ub \in TrieUBChoices :
         LET res == Trie_Remove(snapshots[i], key, ub)
         IN /\ snapshots' = IF res.ret = "ub" THEN snapshots ELSE Append(snapshots, res.t)
            /\ crashed' = (res.ret = "ub")
            /\ last' = Call("Remove", key, FALSE, res.ret, <<>>, <<i>>, <<>>)
    /\ TrieDone

TrieGet(i, key, T) ==
    /\ ~crashed
    /\ LET res == Get(snapshots[i], key, T)
       IN last' = Call("Get", key, FALSE, res.ret, res.out, <<i>>, <<T>>)
    /\ UNCHANGED <<snapshots, crashed>>
    /\ TrieDone

InitTrie ==
    /\ snapshots = <<EmptyTrie>>
    /\ last = NoCall
    /\ replacer_size = 0
    /\ k = 0
    /\ node_store = <<>>
    /\ chain = <<>>
    /\ curr_size = 0
    /\ current_timestamp = 0
    /\ NoPool

NextTrie ==
    \/ \E i \in 1..Len(snapshots), key \in Keys, value \in Values : TriePut(i, key, value)
    \/ \E i \in 1..Len(snapshots), key \in Keys : TrieRemove(i, key)
    \/ \E i \in 1..Len(snapshots), key \in Keys, T \in Types : TrieGet(i, key, T)

SpecTrie == InitTrie /\ [][NextTrie]_vars


(***************************************************************************)
(* Vocabulary of the properties.                                           *)
(***************************************************************************)
Frames == 0..(pool_size - 1)

\* the replacer regards frame f as evictable
IsEvictable(f) == f \in DOMAIN node_store /\ node_store[f].is_evictable

Resident(p) == p \in DOMAIN page_table

Mapped(f) == \E p \in DOMAIN page_table : page_table[p] = f

\* the call that this step made
Called(op) == last'.op = op

ReturnedPage == last.op \in {"NewPage", "FetchPage"} /\ last.ret = "page"

(***************************************************************************)
(* C1. Pin discipline: a page that NewPage or FetchPage (hit or miss) has  *)
(* just returned, and that no UnpinPage has matched yet, has               *)
(* pin_count >= 1 and its frame is non-evictable in the replacer.          *)
(***************************************************************************)
C1_PinnedOnReturn ==
    ReturnedPage =>
        /\ pages[last.out[1]].pin_count >= 1
        /\ ~IsEvictable(last.out[1])

(***************************************************************************)
(* C2. Frame partition: after every buffer pool operation that returns,    *)
(* every frame is in free_list or is mapped by page_table, and not both.   *)
(***************************************************************************)
C2_FramePartition ==
    (~crashed /\ last.ret # "throw") =>
        \A f \in Frames : InSeq(free_list, f) # Mapped(f)

(***************************************************************************)
(* C3. DeletePage rejects pinned pages: DeletePage(p) right after          *)
(* p = NewPage() returns false and changes neither page_table, free_list,  *)
(* the replacer nor the frame; DeletePage(p) right after a successful      *)
(* UnpinPage(p, false) returns true, takes p out of page_table and puts    *)
(* its frame into free_list.                                               *)
(***************************************************************************)
C3_DeleteRejectsPinned ==
    [][ /\ (/\ Called("DeletePage")
            /\ last.op = "NewPage" /\ last.ret = "page"
            /\ last'.arg = last.pid[1])
           => /\ last'.ret = "false"
              /\ UNCHANGED <<page_table, free_list, replacerVars, pages>>
        /\ (/\ Called("DeletePage")
            /\ last.op = "UnpinPage" /\ last.ret = "true" /\ ~last.flag
            /\ last'.arg = last.arg)
           => /\ last'.ret = "true"
              /\ last'.arg \notin DOMAIN page_table'
              /\ InSeq(free_list', last.out[1]) ]_vars

(***************************************************************************)
(* C4. DeletePage of a page id that is not in page_table returns true and  *)
(* changes no buffer pool or replacer state.                               *)
(***************************************************************************)
C4_DeleteAbsentIsTrue ==
    [][ (Called("DeletePage") /\ ~Resident(last'.arg))
        => /\ last'.ret = "true"
           /\ UNCHANGED <<bpmVars, replacerVars>> ]_vars

\* this step took frame f from the replacer
TookVictim(f) ==
    /\ Called("NewPage") \/ (Called("FetchPage") /\ ~Resident(last'.arg))
    /\ free_list = <<>>
    /\ last'.out = <<f>>

\* in the events of a call, event w comes before every reset and every read
WrittenFirst(io, w) ==
    \E i \in 1..Len(io) :
        /\ io[i] = w
        /\ \A j \in 1..Len(io) : io[j].kind \in {"reset", "read"} => i < j

\* the pool has one frame, NewPage has given page 0 and nothing else was installed since
OnlyPageZero ==
    /\ pool_size = 1
    /\ allocated = <<0>>
    /\ current_timestamp = 1
    /\ Resident(0)

(***************************************************************************)
(* C5. Dirty write-back before reuse: when NewPage or FetchPage takes a    *)
(* frame from the replacer and the page in it is dirty, the page's data is *)
(* written to disk under the page's own id before the frame is reset or    *)
(* read into.  In a pool of one frame: after NewPage gave page 0,          *)
(* FetchPage(1) returns null while page 0's frame is not evictable; after  *)
(* UnpinPage(0, true), FetchPage(1) succeeds and page 0 is on disk.        *)
(***************************************************************************)
C5_WriteBackBeforeReuse ==
    [][ /\ \A f \in Frames :
             (TookVictim(f) /\ pages[f].is_dirty /\ last'.io # <<>>)
             => /\ WrittenFirst(last'.io, Event("write", pages[f].page_id, pages[f].data))
                /\ disk'[pages[f].page_id] = pages[f].data
        /\ \A f \in Frames :
             (TookVictim(f) /\ pages[f].is_dirty /\ last'.ret = "page") => last'.io # <<>>
        /\ (OnlyPageZero /\ ~IsEvictable(0) /\ Called("FetchPage") /\ last'.arg = 1)
           => last'.ret = "null"
        /\ (/\ OnlyPageZero
            /\ last.op = "UnpinPage" /\ last.arg = 0 /\ last.flag
            /\ Called("FetchPage") /\ last'.arg = 1)
           => /\ last'.ret = "page"
              /\ disk'[0] = pages[0].data
              /\ WrittenFirst(last'.io, Event("write", 0, pages[0].data)) ]_vars

\* FetchPage has just evicted a dirty page whose data was not zero
C5_Witness ==
    /\ last.op = "FetchPage" /\ last.ret = "page"
    /\ Len(last.io) = 3
    /\ last.io[1].kind = "write" /\ last.io[1].data # 0
    /\ disk[last.io[1].pid] = last.io[1].data
    /\ last.io[2].kind = "reset"

NoEvictableFrame == \A f \in DOMAIN node_store : ~node_store[f].is_evictable

StrictlyIncreasing(s) == \A i, j \in 1..Len(s) : i < j => s[i] < s[j]

(***************************************************************************)
(* C6. Page id allocation: NewPage returns null, and leaves next_page_id   *)
(* alone, exactly when free_list is empty and the replacer has no          *)
(* evictable frame; otherwise it returns a fresh page id.  The ids that    *)
(* NewPage has returned are strictly increasing in latch order, so they    *)
(* are pairwise distinct and none is reused, also after DeletePage.        *)
(***************************************************************************)
C6_PageIdAllocation ==
    [][ Called("NewPage") =>
          /\ (last'.ret = "null") <=> (free_list = <<>> /\ NoEvictableFrame)
          /\ last'.ret = "null" => next_page_id' = next_page_id
          /\ last'.ret # "null" =>
               /\ last'.ret = "page"
               /\ last'.pid = <<next_page_id>>
               /\ ~InSeq(allocated, next_page_id)
               /\ allocated' = Append(allocated, next_page_id)
          /\ StrictlyIncreasing(allocated') ]_vars

\* C6 restricted to the NewPage calls that return
C6_PageIdAllocationOnReturn ==
    [][ (Called("NewPage") /\ last'.ret # "ub") =>
          /\ (last'.ret = "null") <=> (free_list = <<>> /\ NoEvictableFrame)
          /\ last'.ret = "null" => next_page_id' = next_page_id
          /\ last'.ret # "null" =>
               /\ last'.ret = "page"
               /\ last'.pid = <<next_page_id>>
               /\ ~InSeq(allocated, next_page_id)
               /\ allocated' = Append(allocated, next_page_id)
          /\ StrictlyIncreasing(allocated') ]_vars

(***************************************************************************)
(* C7. FlushPage(p) returns false and writes nothing when p is not in      *)
(* page_table; when it is, FlushPage writes the frame's data to disk under *)
(* page id p, dirty or clean, clears the dirty flag and returns true.  So  *)
(* after UnpinPage(p, true) and FlushPage(p) the page is clean and its     *)
(* data is on disk, and one more FlushPage(p) leaves the dirty flag false. *)
(***************************************************************************)
C7_FlushPage ==
    [][ Called("FlushPage") =>
          LET p == last'.arg
          IN IF ~Resident(p)
             THEN /\ last'.ret = "false"
                  /\ last'.io = <<>>
                  /\ UNCHANGED <<bpmVars, replacerVars>>
             ELSE LET f == page_table[p]
                  IN /\ last'.ret = "true"
                     /\ last'.io = <<Event("write", p, pages[f].data)>>
                     /\ disk' = MapPut(disk, p, pages[f].data)
                     /\ pages' = [pages EXCEPT ![f].is_dirty = FALSE]
                     /\ UNCHANGED <<page_table, free_list, next_page_id, replacerVars>> ]_vars

\* FlushPage has just written a page whose data differs from what the disk held at first
C7_Witness ==
    /\ last.op = "FlushPage" /\ last.ret = "true"
    /\ disk[last.arg] # InitialDisk[last.arg]
    /\ disk[last.arg] = pages[page_table[last.arg]].data
    /\ ~pages[page_table[last.arg]].is_dirty

(***************************************************************************)
(* Vocabulary of the replacer's properties.                                *)
(***************************************************************************)
EvictableFrames == {f \in DOMAIN node_store : node_store[f].is_evictable}

Accesses(f) == Len(node_store[f].history)

\* evictable frames with at least one and fewer than k recorded accesses
SubK == {f \in EvictableFrames : 0 < Accesses(f) /\ Accesses(f) < k}

\* evictable frames with k recorded accesses or more
FullK == {f \in EvictableFrames : Accesses(f) >= k}

\* the oldest timestamp of f's history: its k-th most recent access once it
\* has k, its first access since it was last evicted or removed before
Oldest(f) == node_store[f].history[1]

OldestOf(S) == CHOOSE f \in S : \A g \in S : Oldest(f) <= Oldest(g)

(***************************************************************************)
(* C8. LRU-K rule: when no evictable frame has fewer than k recorded       *)
(* accesses, Evict returns the evictable frame whose k-th most recent      *)
(* access is the oldest.                                                   *)
(***************************************************************************)
C8_EvictOldestKth ==
    [][ (/\ Called("Evict")
         /\ FullK # {}
         /\ \A f \in EvictableFrames : Accesses(f) >= k)
        => /\ last'.ret = "true"
           /\ last'.out = <<OldestOf(FullK)>> ]_vars

(***************************************************************************)
(* C9. FIFO among sub-k frames: when some evictable frame has fewer than k *)
(* recorded accesses, Evict returns the one of them whose first access     *)
(* since it was last evicted or removed is the oldest.                     *)
(***************************************************************************)
C9_EvictOldestFirstAccess ==
    [][ (Called("Evict") /\ SubK # {})
        => /\ last'.ret = "true"
           /\ last'.out = <<OldestOf(SubK)>> ]_vars

(***************************************************************************)
(* C10. Evict gating and effect: Evict returns only a frame that is        *)
(* evictable, and none when curr_size is 0; when it returns f, then f is   *)
(* non-evictable, on neither list and without history, Size() is one less, *)
(* and no other frame's evictability, history or place in the list has     *)
(* changed.                                                                *)
(***************************************************************************)
C10_EvictEffect ==
    [][ Called("Evict") =>
          /\ curr_size = 0 => last'.ret = "false"
          /\ last'.ret = "false" => (last'.out = <<>> /\ UNCHANGED replacerVars)
          /\ last'.ret = "true" =>
               \E f \in EvictableFrames :
                  /\ last'.out = <<f>>
                  /\ DOMAIN node_store' = DOMAIN node_store
                  /\ ~node_store'[f].is_evictable
                  /\ node_store'[f].history = <<>>
                  /\ ~InSeq(chain', f)
                  /\ curr_size' = curr_size - 1
                  /\ \A g \in DOMAIN node_store \ {f} : node_store'[g] = node_store[g]
                  /\ chain' = Without(chain, f)
                  /\ UNCHANGED <<current_timestamp, replacer_size, k>> ]_vars

\* Evict has just returned a frame while another evictable frame and a
\* non-evictable frame stay linked
C10_Witness ==
    /\ last.op = "Evict" /\ last.ret = "true"
    /\ curr_size = 1
    /\ \E g \in DOMAIN node_store : node_store[g].is_evictable /\ InSeq(chain, g)
    /\ \E g \in DOMAIN node_store : ~node_store[g].is_evictable /\ InSeq(chain, g)

(***************************************************************************)
(* C11. Replacer size invariant: after every public replacer operation,    *)
(* one that ends in a fatal error included, curr_size (what Size()         *)
(* returns) is the number of frames tracked in node_store whose            *)
(* is_evictable flag is true.                                              *)
(***************************************************************************)
C11_SizeInvariant == curr_size = Cardinality(EvictableFrames)

\* Remove has just thrown on a non-evictable frame while two others are evictable
C11_Witness ==
    /\ last.op = "Remove" /\ last.ret = "throw"
    /\ curr_size = 2
    /\ Cardinality(DOMAIN node_store) = 3

\* the timestamp of f's most recent access
LastAccess(f) == node_store[f].history[Len(node_store[f].history)]

\* evictable frames with a recorded access
Accessed == {f \in EvictableFrames : Accesses(f) > 0}

(***************************************************************************)
(* C12. With k = 1 the replacer is classical LRU: after any sequence of    *)
(* RecordAccess, SetEvictable, Evict and Remove calls, a Remove of a frame *)
(* followed by a new RecordAccess of it included, Evict returns the        *)
(* evictable frame whose most recent access is the oldest.                 *)
(***************************************************************************)
C12_K1IsLRU ==
    [][ (k = 1 /\ Called("Evict") /\ Accessed # {})
        => /\ last'.ret = "true"
           /\ last'.out = <<CHOOSE f \in Accessed :
                               \A g \in Accessed : LastAccess(f) <= LastAccess(g)>> ]_vars

\* C12 while no frame that Remove deleted and RecordAccess made anew is linked
C12_K1IsLRUInCacheList ==
    [][ (/\ k = 1 /\ Called("Evict") /\ Accessed # {}
         /\ IsHistoryEmpty(chain))
        => /\ last'.ret = "true"
           /\ last'.out = <<CHOOSE f \in Accessed :
                               \A g \in Accessed : LastAccess(f) <= LastAccess(g)>> ]_vars

InHistoryList(f) ==
    /\ InSeq(chain, f)
    /\ IndexOf(chain, HistoryEnd) < IndexOf(chain, f)
    /\ IndexOf(chain, f) < IndexOf(chain, MiddleSeparator)

InCacheList(f) ==
    /\ InSeq(chain, f)
    /\ IndexOf(chain, MiddleSeparator) < IndexOf(chain, f)
    /\ IndexOf(chain, f) < IndexOf(chain, BufferStart)

(***************************************************************************)
(* C13. Replacer list membership: after every public replacer operation,   *)
(* every node linked into a list is in the history list if and only if its *)
(* history size is less than k, and in the cache list if and only if its   *)
(* history size is at least k; for every k >= 1, and also for a frame that *)
(* is accessed again after Remove deleted its node.                        *)
(***************************************************************************)
C13_ListMembership ==
    \A f \in DOMAIN node_store :
        InSeq(chain, f) =>
            /\ InHistoryList(f) <=> Accesses(f) < k
            /\ InCacheList(f) <=> Accesses(f) >= k

\* C13 for the replacers with k >= 2
C13_ListMembershipAboveOne == k >= 2 => C13_ListMembership

(***************************************************************************)
(* C20. Evict prefers sub-k frames: if at least one evictable frame has    *)
(* fewer than k recorded accesses, Evict returns a frame with fewer than k *)
(* accesses, never one with k or more.                                     *)
(***************************************************************************)
C20_EvictPrefersSubK ==
    [][ (Called("Evict") /\ \E f \in EvictableFrames : Accesses(f) < k)
        => /\ last'.ret = "true"
           /\ Accesses(last'.out[1]) < k ]_vars

\* C20 when the evictable frame with fewer than k accesses has at least one
C20_EvictPrefersAccessedSubK ==
    [][ (Called("Evict") /\ SubK # {})
        => /\ last'.ret = "true"
           /\ last'.out[1] \in SubK ]_vars

\* every entry of page_table names the frame that holds its page, and no frame twice
PageTableConsistent ==
    /\ \A p \in DOMAIN page_table : pages[page_table[p]].page_id = p
    /\ \A p, q \in DOMAIN page_table : page_table[p] = page_table[q] => p = q

(***************************************************************************)
(* C18. Page table consistency on replacement: whenever NewPage or         *)
(* FetchPage reuses a frame obtained from the replacer, the old page's id  *)
(* is removed from page_table, whether the old page was dirty or not.  So  *)
(* after every buffer pool operation every entry page_table[p] = f has     *)
(* pages[f].page_id = p, and no two page ids map to the same frame.        *)
(***************************************************************************)
C18_PageTableOnReplacement ==
    [][ /\ \A f \in Frames :
             (TookVictim(f) /\ last'.ret = "page" /\ last'.pid # <<pages[f].page_id>>)
             => pages[f].page_id \notin DOMAIN page_table'
        /\ PageTableConsistent' ]_vars

\* page p is resident and its frame is dirty
Dirty(p) == Resident(p) /\ pages[page_table[p]].is_dirty

(***************************************************************************)
(* C19. Dirty flag of a newly installed page: a page returned by a         *)
(* FetchPage miss, whatever the origin of its frame (free list, eviction   *)
(* of a dirty or a clean victim, DeletePage), has is_dirty = false; and a  *)
(* resident page is dirty only if UnpinPage(p, true) was called for it     *)
(* since it became resident or was last flushed: a step leaves page p      *)
(* dirty only if it is UnpinPage(p, true) or p was resident and dirty      *)
(* before it.                                                              *)
(***************************************************************************)
C19_DirtyOnlyByUnpin ==
    [][ /\ (Called("FetchPage") /\ ~Resident(last'.arg) /\ last'.ret = "page")
           => ~pages'[last'.out[1]].is_dirty
        /\ \A p \in PageIds :
             Dirty(p)' =>
                \/ Called("UnpinPage") /\ last'.arg = p /\ last'.flag
                \/ Dirty(p) ]_vars

(***************************************************************************)
(* Vocabulary of the trie's properties.                                    *)
(***************************************************************************)
\* the labels that lead from the root to the node of a key
PathOf(key) == IF key = <<>> THEN <<Nul>> ELSE key

\* <<the value stored at the key>>, or <<>> when the key has no value node
Stored(t, key) ==
    IF t.root = <<>> THEN <<>>
    ELSE LET found == Walk(t.root[1], PathOf(key), 1)
         IN IF found = <<>> THEN <<>> ELSE found[1].value

NotFound == GetResult("null", <<>>)

\* the snapshot the call of this step was made on, and the one it returned
Receiver == snapshots[last'.pid[1]]

Returned == snapshots'[Len(snapshots')]

\* both snapshots answer every Get in the same way
SameGets(t1, t2) ==
    \A key \in ProbeKeys, T \in Types : Get(t1, key, T) = Get(t2, key, T)

(***************************************************************************)
(* C14. Put produces a new snapshot and leaves the old one untouched: with *)
(* S' = S.Put(k, v), S'.Get(k) returns v; S'.Get(k') equals S.Get(k') for  *)
(* every key k' other than k, prefixes and extensions of k included; and   *)
(* Get on S, and on every older snapshot, answers after the Put as before. *)
(***************************************************************************)
C14_PutSnapshot ==
    [][ Called("Put") =>
          /\ Get(Returned, last'.arg, last'.out[1].type) = GetResult("value", last'.out)
          /\ \A key \in ProbeKeys \ {last'.arg}, T \in Types :
                Get(Returned, key, T) = Get(Receiver, key, T)
          /\ \A j \in 1..Len(snapshots) : SameGets(snapshots'[j], snapshots[j]) ]_vars

\* C14 without the keys that extend k or sit beside it: the key itself and
\* the older snapshots
C14_PutSnapshotOwnKey ==
    [][ Called("Put") =>
          /\ Get(Returned, last'.arg, last'.out[1].type) = GetResult("value", last'.out)
          /\ \A j \in 1..Len(snapshots) : SameGets(snapshots'[j], snapshots[j]) ]_vars

(***************************************************************************)
(* C15. Put/Remove round trip: for a snapshot S without key k (k may be    *)
(* the empty key, S the empty trie) and a value v, the snapshot            *)
(* R = S.Put(k, v).Remove(k) has R.Get(k) = not found and                  *)
(* R.Get(k') = S.Get(k') for every other key k'.                           *)
(***************************************************************************)
C15_PutRemoveRoundTrip ==
    [][ (/\ Called("Remove")
         /\ last.op = "Put" /\ last'.arg = last.arg /\ last'.pid = <<Len(snapshots)>>
         /\ Stored(snapshots[last.pid[1]], last.arg) = <<>>)
        => /\ last'.ret = "trie"
           /\ \A T \in Types : Get(Returned, last'.arg, T) = NotFound
           /\ \A key \in ProbeKeys \ {last'.arg}, T \in Types :
                 Get(Returned, key, T) = Get(snapshots[last.pid[1]], key, T) ]_vars

(***************************************************************************)
(* C16. Get never fails: on every snapshot, empty or not, and for every    *)
(* key, the empty key while the root has no \0 child included, Get returns *)
(* the stored value or "not found"; it returns "not found" whenever the    *)
(* key has no value node or the stored value is of another type than the   *)
(* one asked for, and it never raises an error.                            *)
(***************************************************************************)
C16_GetNeverFails ==
    [][ Called("Get") =>
          LET stored == Stored(Receiver, last'.arg)
          IN IF stored # <<>> /\ stored[1].type = last'.io[1]
             THEN last'.ret = "value" /\ last'.out = stored
             ELSE last'.ret = "null" /\ last'.out = <<>> ]_vars

\* C16 for the keys that are not empty
C16_GetNeverFailsNonEmptyKey ==
    [][ (Called("Get") /\ last'.arg # <<>>) =>
          LET stored == Stored(Receiver, last'.arg)
          IN IF stored # <<>> /\ stored[1].type = last'.io[1]
             THEN last'.ret = "value" /\ last'.out = stored
             ELSE last'.ret = "null" /\ last'.out = <<>> ]_vars

(***************************************************************************)
(* C17. Remove of an absent key is a logical no-op that does not fail: for *)
(* a snapshot S, the empty trie included, and a key k, the empty key       *)
(* included, at which S has no value, S.Remove(k) completes without error  *)
(* and returns a snapshot R with R.Get(k') = S.Get(k') for every key k'.   *)
(***************************************************************************)
C17_RemoveAbsentIsNoOp ==
    [][ (Called("Remove") /\ Stored(Receiver, last'.arg) = <<>>)
        => /\ last'.ret = "trie"
           /\ SameGets(Returned, Receiver) ]_vars

\* C17 for the snapshots that have a root
C17_RemoveAbsentIsNoOpWithRoot ==
    [][ (Called("Remove") /\ Stored(Receiver, last'.arg) = <<>> /\ Receiver.root # <<>>)
        => /\ last'.ret = "trie"
           /\ SameGets(Returned, Receiver) ]_vars

\* in the subtree of the node, every node without children is a value node
RECURSIVE Pruned(_)
Pruned(node) ==
    /\ DOMAIN node.children = {} => node.is_value_node
    /\ \A ch \in DOMAIN node.children : Pruned(node.children[ch])

\* the trie is the empty trie, or no node it reaches is a structural leaf
WellPruned(t) == t.root = <<>> \/ Pruned(t.root[1])

\* <<the node of the key>> in the trie, or <<>>
NodeAt(t, key) ==
    IF t.root = <<>> THEN <<>> ELSE Walk(t.root[1], PathOf(key), 1)

(***************************************************************************)
(* C21. Trie pruning invariant: in every snapshot that a sequence of Put   *)
(* and Remove calls makes from the empty trie, every reachable node        *)
(* without children is a value node.  So a Remove, of any key, the empty   *)
(* key included, that leaves the root without children returns the empty   *)
(* trie and not a trie with a childless root; and a removed terminal that  *)
(* still has children is replaced by a non-value node with those children. *)
(***************************************************************************)
C21_PruningInvariant ==
    [][ /\ (Called("Put") \/ (Called("Remove") /\ last'.ret = "trie"))
           => WellPruned(Returned)
        /\ (/\ Called("Remove") /\ last'.ret = "trie"
            /\ Stored(Receiver, last'.arg) # <<>>
            /\ DOMAIN NodeAt(Receiver, last'.arg)[1].children # {})
           => /\ NodeAt(Returned, last'.arg) # <<>>
              /\ ~NodeAt(Returned, last'.arg)[1].is_value_node
              /\ NodeAt(Returned, last'.arg)[1].children
                    = NodeAt(Receiver, last'.arg)[1].children ]_vars

\* C21 for the calls with a key that is not empty, made on a snapshot that
\* has a root and is itself well pruned
C21_PruningInvariantNonEmptyKey ==
    [][ /\ (/\ Called("Put") \/ (Called("Remove") /\ last'.ret = "trie")
            /\ last'.arg # <<>> /\ Receiver.root # <<>> /\ WellPruned(Receiver))
           => WellPruned(Returned)
        /\ (/\ Called("Remove") /\ last'.ret = "trie"
            /\ Stored(Receiver, last'.arg) # <<>>
            /\ DOMAIN NodeAt(Receiver, last'.arg)[1].children # {})
           => /\ NodeAt(Returned, last'.arg) # <<>>
              /\ ~NodeAt(Returned, last'.arg)[1].is_value_node
              /\ NodeAt(Returned, last'.arg)[1].children
                    = NodeAt(Receiver, last'.arg)[1].children ]_vars

\* every frame that curr_size counts is linked into the history or the cache list
EvictableLinked == \A f \in EvictableFrames : InSeq(chain, f)

(***************************************************************************)
(* C22. Evict succeeds whenever Size() > 0: after any sequence of          *)
(* RecordAccess, SetEvictable, Evict and Remove calls, if Size() > 0 then  *)
(* Evict returns true and gives the id of an evictable frame; so every     *)
(* frame counted in curr_size is linked into the history or cache list.    *)
(* (The buffer pool tests Size() > 0 and then uses the frame id of Evict   *)
(* without looking at what Evict returned.)                                *)
(***************************************************************************)
C22_EvictSucceedsWhenSizePositive ==
    [][ /\ (Called("Evict") /\ Size(Rep) > 0)
           => /\ last'.ret = "true"
              /\ Len(last'.out) = 1
              /\ last'.out[1] \in EvictableFrames
        /\ EvictableLinked' ]_vars

\* C22 as the buffer pool needs it: in a pool, every frame that the
\* replacer counts as evictable is on a list, so Evict finds it
C22_EvictableLinkedInPool == EvictableLinked

=============================================================================
